---- MODULE Spec2Model ----
(***************************************************************************)
(* Model of backend/main.py: the ClickHouse connection cache (get_client), *)
(* the CSV import handler (flatfile_to_clickhouse) and the export handler  *)
(* (clickhouse_to_flatfile), run as coroutines of one asyncio event loop.  *)
(*                                                                         *)
(* Text is a sequence of one-character strings, so that formatting         *)
(* (cache_key), matching (the identifier pattern) and suffix tests         *)
(* (endswith) are computed and not assumed.  A DataFrame's rows are kept   *)
(* run-length encoded: a sequence of segments [row, n], the row `row`      *)
(* repeated n times; a slice of rows is the pair <<lo, hi>> of Python's    *)
(* df.iloc[lo:hi].                                                         *)
(***************************************************************************)
EXTENDS Integers, Sequences, FiniteSets, TLC

VARIABLES
    connection_pool,  \* main.py:65, cache key -> client id
    loop,             \* the request whose coroutine the event loop is running; 0: none
    pc,               \* per request: where its handler stands
    inp,              \* per request: the request's parameters
    client,           \* per request: the handler's local `client`; 0: unset
    i,                \* per request: the loop index of `for i in range(...)`
    inserted_rows,    \* per request: the handler's local `inserted_rows`
    resp,             \* per request: the HTTP response; status 0: none yet
    calls,            \* every call made on a sink client, in order
    gets              \* every get_client call, in order

vars == <<connection_pool, loop, pc, inp, client, i, inserted_rows, resp, calls, gets>>

----------------------------------------------------------------------------
(* Bounds *)

\* Number of requests in flight in SpecConc.
NumReqs == 2

\* The largest upload has MaxBatches full batches.
MaxBatches == 3

(* Program constants *)

batch_size == 10000

default_port == 8123

Reqs == 1 .. NumReqs

----------------------------------------------------------------------------
(* Text *)

RECURSIVE SumN(_)
SumN(segs) == IF segs = <<>> THEN 0 ELSE Head(segs).n + SumN(Tail(segs))

Min(a, b) == IF a < b THEN a ELSE b

DigitChar(d) == <<"0", "1", "2", "3", "4", "5", "6", "7", "8", "9">>[d + 1]

\* f"{conn.port}": the decimal digits of a positive integer.
RECURSIVE IntStr(_)
IntStr(n) == IF n < 10 THEN <<DigitChar(n)>> ELSE IntStr(n \div 10) \o <<DigitChar(n % 10)>>

Letters == {"a", "b", "c", "d", "e", "f", "i", "l", "m", "n", "o", "p", "q", "r", "s", "t", "u", "v", "x",
            "A", "B", "C", "D", "E", "F", "I", "L", "M", "N", "P", "Q", "S", "T", "U", "V", "X"}

Digits == {"0", "1", "2", "3", "4", "5", "6", "7", "8", "9"}

\* str.lower() on the characters the model uses.
LowerChar(c) ==
    CASE c = "A" -> "a" [] c = "B" -> "b" [] c = "C" -> "c" [] c = "D" -> "d"
      [] c = "E" -> "e" [] c = "F" -> "f" [] c = "I" -> "i" [] c = "L" -> "l"
      [] c = "M" -> "m" [] c = "N" -> "n" [] c = "P" -> "p" [] c = "Q" -> "q"
      [] c = "S" -> "s" [] c = "T" -> "t" [] c = "U" -> "u" [] c = "V" -> "v"
      [] c = "X" -> "x" [] OTHER -> c

lower(s) == [k \in 1 .. Len(s) |-> LowerChar(s[k])]

endswith(s, suf) ==
    /\ Len(s) >= Len(suf)
    /\ SubSeq(s, Len(s) - Len(suf) + 1, Len(s)) = suf

\* re.match(r'^[a-zA-Z_][a-zA-Z0-9_]*$', v)
MatchesIdentifier(v) ==
    /\ Len(v) >= 1
    /\ v[1] \in Letters \cup {"_"}
    /\ \A k \in 2 .. Len(v) : v[k] \in Letters \cup Digits \cup {"_"}

----------------------------------------------------------------------------
(* Connection cache *)

cache_key_with_password(conn) ==
    conn.host \o <<":">> \o IntStr(conn.port) \o <<":">> \o conn.database
        \o <<":">> \o conn.username \o <<":">> \o conn.password

\* f"{conn.host}:{conn.port}:{conn.database}:{conn.username}"
cache_key(conn) ==
    conn.host \o <<":">> \o IntStr(conn.port) \o <<":">> \o conn.database
        \o <<":">> \o conn.username

\* The client clickhouse_connect.get_client returns: a fresh object, named by
\* the order of creation.
NewClient == Cardinality(DOMAIN connection_pool) + 1

\* connection_pool after get_client(conn); ok: whether the driver connects.
get_client_pool(conn, ok) ==
    IF cache_key(conn) \in DOMAIN connection_pool
    THEN connection_pool
    ELSE IF ok THEN connection_pool @@ (cache_key(conn) :> NewClient)
         ELSE connection_pool

\* Whether get_client(conn) raises HTTPException(503).
get_client_raises(conn, ok) == cache_key(conn) \notin DOMAIN connection_pool /\ ~ok

\* The history record of one get_client call by request r.
GetRecord(r, conn, ok) ==
    [req |-> r, conn |-> conn,
     created |-> cache_key(conn) \notin DOMAIN connection_pool /\ ok,
     raised |-> IF get_client_raises(conn, ok) THEN 503 ELSE 0,
     result |-> IF get_client_raises(conn, ok) THEN 0
                ELSE get_client_pool(conn, ok)[cache_key(conn)]]

----------------------------------------------------------------------------
(* Request parameters *)

Databases == {<<"d">>, <<"d", ":", "u">>}

Usernames == {<<"u">>, <<"u", ":", "u">>}

Credentials == {[password |-> <<"p">>, secure |-> FALSE], [password |-> <<"q">>, secure |-> TRUE]}

\* ClickHouseConnection values.
Conns ==
    {[host |-> <<"d", "b">>, port |-> default_port, database |-> db, username |-> u,
      password |-> c.password, secure |-> c.secure] :
        db \in Databases, u \in Usernames, c \in Credentials}

\* Two connections with one key and different credentials, two whose keys
\* differ as tuples and agree as text, and one with a key of its own.
ConcConns ==
    {c \in Conns :
        \/ c.database = <<"d">> /\ c.username = <<"u", ":", "u">>
        \/ c.password = <<"p">> /\ ~(c.database = <<"d", ":", "u">> /\ c.username = <<"u", ":", "u">>)}

Tables == {<<"u", "s", "e", "r", "s">>, <<"1", "b", "a", "d">>}

ConcTables == {<<"u", "s", "e", "r", "s">>}

col_id == <<"i", "d">>

col_name == <<"n", "a", "m", "e">>

col_price == <<"p", "r", "i", "c", "e">>

col_active == <<"a", "c", "t", "i", "v", "e">>

col_note == <<"n", "o", "t", "e">>

col_bad == <<"1", "x">>

name_csv == <<"f", ".", "c", "s", "v">>

name_TXT == <<"F", ".", "T", "X", "T">>

name_exe == <<"f", ".", "e", "x", "e">>

RowCounts ==
    {batch_size, batch_size + 1, (MaxBatches - 1) * batch_size + 1, MaxBatches * batch_size}

\* An upload of n >= 3 rows: an integer column, a decimal column, a boolean
\* column and a blank column.
BigFile(n) ==
    [filename |-> name_csv,
     columns |-> <<col_id, col_price, col_active, col_note>>,
     segs |-> <<[row |-> <<"1", "1", "true", "">>, n |-> 1],
                [row |-> <<"2", "2.5", "false", "">>, n |-> n - 2],
                [row |-> <<"3", "3", "true", "">>, n |-> 1]>>]

ScenarioFile ==
    [filename |-> name_TXT,
     columns |-> <<col_id, col_name, col_active>>,
     segs |-> <<[row |-> <<"1", "alice", "true">>, n |-> 1],
                [row |-> <<"2", "bob", "false">>, n |-> 1]>>]

\* The uploads: a wrong extension, no content at all, a header line alone,
\* a column name that is no identifier, and the well-formed ones.
Files ==
    {[filename |-> name_exe, columns |-> <<col_id>>, segs |-> <<[row |-> <<"1">>, n |-> 1]>>],
     [filename |-> name_csv, columns |-> <<>>, segs |-> <<>>],
     [filename |-> name_csv, columns |-> <<col_id, col_name>>, segs |-> <<>>],
     [filename |-> name_csv, columns |-> <<col_bad>>, segs |-> <<[row |-> <<"1">>, n |-> 1]>>],
     ScenarioFile}
    \cup {BigFile(n) : n \in RowCounts}

ConcFiles == {ScenarioFile, BigFile(batch_size + 1)}

\* ColumnSelection values (join_tables and join_condition left None).
Selections ==
    {[table |-> t, columns |-> <<col_id>>] : t \in Tables}

ConcSelections == {[table |-> t, columns |-> <<col_id>>] : t \in ConcTables}

----------------------------------------------------------------------------
(* The import handler's pure parts *)

\* `if not file.filename.lower().endswith(('.csv', '.txt'))`
filename_ok(filename) ==
    \/ endswith(lower(filename), <<".", "c", "s", "v">>)
    \/ endswith(lower(filename), <<".", "t", "x", "t">>)

\* pd.read_csv raises EmptyDataError on content with no header line.
read_csv_raises(file) == file.columns = <<>>

\* pd.read_csv(..., dtype=str, na_filter=False): every cell is kept as text,
\* so every column's dtype is object whatever its values are.
read_csv(file) ==
    [columns |-> file.columns,
     segs |-> file.segs,
     dtypes |-> [c \in 1 .. Len(file.columns) |-> "object"]]

\* len(df)
len(df) == SumN(df.segs)

df_empty_never(df) == FALSE

\* df.empty: some axis has length 0.
df_empty(df) == Len(df.columns) = 0 \/ len(df) = 0

type_mapping ==
    [d \in {"int64", "float64", "bool", "datetime64", "object"} |->
        CASE d = "int64" -> "Int64"
          [] d = "float64" -> "Float64"
          [] d = "bool" -> "UInt8"
          [] d = "datetime64" -> "DateTime"
          [] d = "object" -> "String"]

\* type_mapping.get(str(dtype), 'String')
ch_type(dtype) == IF dtype \in DOMAIN type_mapping THEN type_mapping[dtype] ELSE "String"

\* The column definitions of the CREATE TABLE statement, in column order.
columns_def(df) ==
    [c \in 1 .. Len(df.columns) |-> [name |-> df.columns[c], type |-> ch_type(df.dtypes[c])]]

\* df.iloc[lo:hi], as the bounds of the slice.
iloc(df, lo, hi) == <<Min(lo, len(df)), Min(hi, len(df))>>

\* len(batch)
batch_len(batch) == batch[2] - batch[1]

range_step_overlapping(k) == k + batch_size - 1

\* The next value of `for i in range(0, total_rows, batch_size)`.
range_step(k) == k + batch_size

counted_full_batch(batch) == batch_size

\* `inserted_rows += len(batch)`: the rows one insert adds to the count.
counted(batch) == batch_len(batch)

HTTPException(status_code, detail) == [status |-> status_code, detail |-> detail]

NoResponse == [status |-> 0]

CommandNext_swallow(ok, more) == IF more THEN "insert" ELSE "return"

\* Where the handler goes after client.command: an exception leaves the try
\* block for the handler's except clause.
CommandNext(ok, more) == IF ~ok THEN "done" ELSE IF more THEN "insert" ELSE "return"

InsertNext_skip(ok, more) == IF more THEN "insert" ELSE "return"

\* Where the handler goes after client.insert: an exception leaves the loop.
InsertNext(ok, more) == IF ~ok THEN "done" ELSE IF more THEN "insert" ELSE "return"

----------------------------------------------------------------------------
(* The event loop *)

Suspended_at_insert == {"reading", "insert"}

\* The places where a handler awaits: `await file.read()` is the only one.
Suspended == {"reading"}

\* The event loop runs r: it is already running it, or it is free and r is
\* a new request or a suspended coroutine.
CanRun(r) == loop = r \/ (loop = 0 /\ pc[r] \in Suspended \cup {"idle"})

\* Who holds the event loop once r stands at newpc.
Release(r, newpc) == IF newpc \in Suspended \cup {"done"} THEN 0 ELSE r

----------------------------------------------------------------------------
(* Handlers *)

Init ==
    /\ connection_pool = <<>>
    /\ loop = 0
    /\ pc = [r \in Reqs |-> "idle"]
    /\ inp = [r \in Reqs |-> [kind |-> "none"]]
    /\ client = [r \in Reqs |-> 0]
    /\ i = [r \in Reqs |-> 0]
    /\ inserted_rows = [r \in Reqs |-> 0]
    /\ resp = [r \in Reqs |-> NoResponse]
    /\ calls = <<>>
    /\ gets = <<>>

\* The handler's DataFrame, once read.
df(r) == read_csv(inp[r].file)

\* total_rows = len(df)
total_rows(r) == len(df(r))

\* One call on a sink client, as the history keeps it.
Call(r, op, table, cols, rows, ok) ==
    [req |-> r, client |-> client[r], op |-> op, table |-> table, cols |-> cols,
     rows |-> rows, ok |-> ok]

\* flatfile_to_clickhouse, from the request to `await file.read()`.
ImportStart(r, C, T, F) ==
    /\ pc[r] = "idle"
    /\ CanRun(r)
    /\ \E conn \in C, table \in T, file \in F :
        LET newpc == IF filename_ok(file.filename) THEN "reading" ELSE "done" IN
        /\ inp' = [inp EXCEPT ![r] = [kind |-> "import", conn |-> conn, table |-> table,
                                      file |-> file]]
        /\ pc' = [pc EXCEPT ![r] = newpc]
        /\ resp' = [resp EXCEPT ![r] =
                       IF newpc = "done"
                       THEN HTTPException(400, <<"Only CSV files are supported">>)
                       ELSE @]
        /\ loop' = Release(r, newpc)
    /\ UNCHANGED <<connection_pool, client, i, inserted_rows, calls, gets>>

\* pd.read_csv and the df.empty test.
ImportParse(r) ==
    /\ pc[r] = "reading"
    /\ CanRun(r)
    /\ LET file == inp[r].file
           newpc == IF read_csv_raises(file) \/ df_empty(read_csv(file))
                    THEN "done" ELSE "connect"
       IN
        /\ pc' = [pc EXCEPT ![r] = newpc]
        /\ resp' = [resp EXCEPT ![r] =
                       IF read_csv_raises(file)
                       THEN HTTPException(500, <<"Import failed: ", "No columns to parse from file">>)
                       ELSE IF newpc = "done"
                            THEN HTTPException(400, <<"File is empty or invalid format">>)
                            ELSE @]
        /\ loop' = Release(r, newpc)
    /\ UNCHANGED <<connection_pool, inp, client, i, inserted_rows, calls, gets>>

\* client = get_client(conn); the HTTPException it raises is re-raised.
ImportConnect(r) ==
    /\ pc[r] = "connect"
    /\ CanRun(r)
    /\ \E ok \in BOOLEAN :
        LET conn == inp[r].conn
            newpc == IF get_client_raises(conn, ok) THEN "done" ELSE "create"
        IN
        /\ ok \/ cache_key(conn) \notin DOMAIN connection_pool
        /\ gets' = Append(gets, GetRecord(r, conn, ok))
        /\ connection_pool' = get_client_pool(conn, ok)
        /\ client' = [client EXCEPT ![r] =
                         IF newpc = "done" THEN @ ELSE get_client_pool(conn, ok)[cache_key(conn)]]
        /\ pc' = [pc EXCEPT ![r] = newpc]
        /\ resp' = [resp EXCEPT ![r] =
                       IF newpc = "done"
                       THEN HTTPException(503, <<"Database connection failed">>)
                       ELSE @]
        /\ loop' = Release(r, newpc)
    /\ UNCHANGED <<inp, i, inserted_rows, calls>>

\* The schema, client.command(create_table_sql) and the loop's set-up.
ImportCreateTable(r) ==
    /\ pc[r] = "create"
    /\ CanRun(r)
    /\ \E ok \in BOOLEAN :
        LET newpc == CommandNext(ok, 0 < total_rows(r)) IN
        /\ calls' = Append(calls, Call(r, "command", inp[r].table, columns_def(df(r)), <<>>, ok))
        /\ pc' = [pc EXCEPT ![r] = newpc]
        /\ resp' = [resp EXCEPT ![r] =
                       IF newpc = "done"
                       THEN HTTPException(500, <<"Import failed: ", "DDL rejected">>)
                       ELSE @]
        /\ i' = [i EXCEPT ![r] = 0]
        /\ inserted_rows' = [inserted_rows EXCEPT ![r] = 0]
        /\ loop' = Release(r, newpc)
    /\ UNCHANGED <<connection_pool, inp, client, gets>>

\* One turn of the loop: the slice, client.insert and the count.
ImportInsert(r) ==
    /\ pc[r] = "insert"
    /\ CanRun(r)
    /\ \E ok \in BOOLEAN :
        LET batch == iloc(df(r), i[r], i[r] + batch_size)
            newpc == InsertNext(ok, range_step(i[r]) < total_rows(r))
        IN
        /\ calls' = Append(calls, Call(r, "insert", inp[r].table, df(r).columns, batch, ok))
        /\ inserted_rows' = [inserted_rows EXCEPT ![r] = IF ok THEN @ + counted(batch) ELSE @]
        /\ i' = [i EXCEPT ![r] = IF newpc = "done" THEN @ ELSE range_step(@)]
        /\ pc' = [pc EXCEPT ![r] = newpc]
        /\ resp' = [resp EXCEPT ![r] =
                       IF newpc = "done"
                       THEN HTTPException(500, <<"Import failed: ", "insert failed">>)
                       ELSE @]
        /\ loop' = Release(r, newpc)
    /\ UNCHANGED <<connection_pool, inp, client, gets>>

\* The handler's return value.
ImportReturn(r) ==
    /\ pc[r] = "return"
    /\ CanRun(r)
    /\ inp[r].kind = "import"
    /\ resp' = [resp EXCEPT ![r] =
                   [status |-> 200, count |-> inserted_rows[r], columns |-> df(r).columns,
                    table |-> inp[r].table]]
    /\ pc' = [pc EXCEPT ![r] = "done"]
    /\ loop' = Release(r, "done")
    /\ UNCHANGED <<connection_pool, inp, client, i, inserted_rows, calls, gets>>

\* ColumnSelection's validators: the table name pattern and min_items=1.
selection_valid(selection) ==
    /\ MatchesIdentifier(selection.table)
    /\ Len(selection.columns) >= 1

\* clickhouse_to_flatfile up to its query: the request's validation and
\* get_client, whose HTTPException the handler's `except Exception` turns
\* into a 500.
ExportStart(r, C, S) ==
    /\ pc[r] = "idle"
    /\ CanRun(r)
    /\ \E conn \in C, selection \in S, ok \in BOOLEAN :
        LET valid == selection_valid(selection)
            newpc == IF ~valid \/ get_client_raises(conn, ok) THEN "done" ELSE "query"
        IN
        /\ ok \/ (valid /\ cache_key(conn) \notin DOMAIN connection_pool)
        /\ inp' = [inp EXCEPT ![r] = [kind |-> "export", conn |-> conn,
                                      selection |-> selection]]
        /\ gets' = IF valid THEN Append(gets, GetRecord(r, conn, ok)) ELSE gets
        /\ connection_pool' = IF valid THEN get_client_pool(conn, ok) ELSE connection_pool
        /\ client' = [client EXCEPT ![r] =
                         IF newpc = "done" THEN @ ELSE get_client_pool(conn, ok)[cache_key(conn)]]
        /\ pc' = [pc EXCEPT ![r] = newpc]
        /\ resp' = [resp EXCEPT ![r] =
                       IF ~valid THEN HTTPException(422, <<"Invalid table name">>)
                       ELSE IF newpc = "done"
                            THEN HTTPException(500, <<"Export failed: ", "Database connection failed">>)
                            ELSE @]
        /\ loop' = Release(r, newpc)
    /\ UNCHANGED <<i, inserted_rows, calls>>

\* client.query(query) and the response.
ExportQuery(r) ==
    /\ pc[r] = "query"
    /\ CanRun(r)
    /\ \E ok \in BOOLEAN, n \in {0, 1} :
        /\ ok \/ n = 0
        /\ calls' = Append(calls, Call(r, "query", inp[r].selection.table,
                                       inp[r].selection.columns, <<>>, ok))
        /\ resp' = [resp EXCEPT ![r] =
                       IF ok THEN [status |-> 200, count |-> n]
                       ELSE HTTPException(500, <<"Export failed: ", "query failed">>)]
        /\ pc' = [pc EXCEPT ![r] = "done"]
        /\ loop' = Release(r, "done")
    /\ UNCHANGED <<connection_pool, inp, client, i, inserted_rows, gets>>

\* One step of request r, its parameters drawn from C, T, F and S.
Step(r, C, T, F, S) ==
    \/ ImportStart(r, C, T, F)
    \/ ImportParse(r)
    \/ ImportConnect(r)
    \/ ImportCreateTable(r)
    \/ ImportInsert(r)
    \/ ImportReturn(r)
    \/ ExportStart(r, C, S)
    \/ ExportQuery(r)

\* One request, over every parameter.
Next == \E r \in {1} : Step(r, Conns, Tables, Files, Selections)

Spec == Init /\ [][Next]_vars

\* NumReqs requests in flight at once.
NextConc == \E r \in Reqs : Step(r, ConcConns, ConcTables, ConcFiles, ConcSelections)

SpecConc == Init /\ [][NextConc]_vars

----------------------------------------------------------------------------
(* Properties *)

ImportReqs == {r \in Reqs : inp[r].kind = "import"}

CallsOf(r) == SelectSeq(calls, LAMBDA c : c.req = r)

InsertsOf(r) == SelectSeq(calls, LAMBDA c : c.req = r /\ c.op = "insert")

FailedInsertsOf(r) == SelectSeq(calls, LAMBDA c : c.req = r /\ c.op = "insert" /\ ~c.ok)

GetsOf(r) == SelectSeq(gets, LAMBDA g : g.req = r)

RECURSIVE SumRows(_)
SumRows(cs) == IF cs = <<>> THEN 0 ELSE batch_len(Head(cs).rows) + SumRows(Tail(cs))

\* Rows of the upload that were never handed to client.insert.
RemainingUnattempted(r) == total_rows(r) - SumRows(InsertsOf(r))

\* C1: when the insert call of a chunk fails the import stops at once: the
\* request ends with an error and issues no sink call after the failed one.
C1_FailFast ==
    \A a \in 1 .. Len(calls) :
        (calls[a].op = "insert" /\ ~calls[a].ok) =>
            /\ \A b \in (a + 1) .. Len(calls) : calls[b].req # calls[a].req
            /\ pc[calls[a].req] = "done"
            /\ resp[calls[a].req].status = 500

\* C1's case: an insert failed with chunks before it and chunks after it.
C1_Witness ==
    \E r \in ImportReqs : \E a \in 1 .. Len(calls) :
        /\ calls[a].req = r /\ calls[a].op = "insert" /\ ~calls[a].ok
        /\ calls[a].rows[1] > 0
        /\ calls[a].rows[2] < total_rows(r)
        /\ pc[r] = "done"

\* C2: when the insert call of chunk k fails, the error returned to the
\* caller carries the number of rows the chunks before it inserted,
\* (k - 1) * chunkSize.
C2_ErrorCarriesCount ==
    \A r \in ImportReqs :
        (pc[r] = "done" /\ FailedInsertsOf(r) # <<>>) =>
            /\ "count" \in DOMAIN resp[r]
            /\ resp[r].count = FailedInsertsOf(r)[1].rows[1]

\* C3: the insert calls of an import are the consecutive chunks of the rows,
\* in row order, each of batch_size rows but possibly the last, none
\* submitted twice, and each submitted only once the one before it returned.
C3_Chunks ==
    \A r \in ImportReqs :
        LET ins == InsertsOf(r) IN
        \A k \in 1 .. Len(ins) :
            /\ ins[k].rows[1] = (k - 1) * batch_size
            /\ ins[k].rows[2] = Min(k * batch_size, total_rows(r))
            /\ ins[k].rows[1] < ins[k].rows[2]
            /\ k > 1 => ins[k - 1].ok

\* C3's case: a finished import of several chunks whose last chunk is smaller.
C3_Witness ==
    \E r \in ImportReqs :
        LET ins == InsertsOf(r) IN
        /\ pc[r] = "done"
        /\ Len(ins) >= 3
        /\ batch_len(ins[Len(ins)].rows) < batch_size
        /\ resp[r].status = 200

\* C4, as stated: after any import run, successful or failed at some chunk,
\* inserted + rowsRemainingUnattempted = total.
C4_RowCountAsStated ==
    \A r \in ImportReqs :
        pc[r] = "done" => inserted_rows[r] + RemainingUnattempted(r) = total_rows(r)

\* C4, amended: after any import run, inserted + the rows of the chunk whose
\* insert failed (none on success) + rowsRemainingUnattempted = total, and a
\* successful run reports inserted = total.
C4_RowCount ==
    \A r \in ImportReqs :
        pc[r] = "done" =>
            /\ inserted_rows[r] + SumRows(FailedInsertsOf(r)) + RemainingUnattempted(r)
                   = total_rows(r)
            /\ resp[r].status = 200 =>
                   /\ resp[r].count = total_rows(r)
                   /\ RemainingUnattempted(r) = 0

\* C4's case: a run that failed at a chunk after inserting earlier chunks.
C4_Witness ==
    \E r \in ImportReqs :
        /\ pc[r] = "done"
        /\ FailedInsertsOf(r) # <<>>
        /\ inserted_rows[r] > 0
        /\ RemainingUnattempted(r) > 0

\* C5: the CREATE TABLE statement is the first sink call of an import and is
\* issued once; if the sink rejects it the import ends with an error that
\* wraps the sink's, with no insert call and no row inserted.
C5_DDLFirst ==
    \A r \in ImportReqs :
        LET cs == CallsOf(r) IN
        /\ cs # <<>> => cs[1].op = "command"
        /\ \A k \in 2 .. Len(cs) : cs[k].op = "insert" /\ cs[1].ok
        /\ (cs # <<>> /\ ~cs[1].ok) =>
               /\ Len(cs) = 1
               /\ pc[r] = "done"
               /\ resp[r] = HTTPException(500, <<"Import failed: ", "DDL rejected">>)
               /\ inserted_rows[r] = 0

\* C5's case: the sink rejected the CREATE TABLE of an upload with rows.
C5_Witness ==
    \E r \in ImportReqs :
        /\ CallsOf(r) # <<>>
        /\ ~CallsOf(r)[1].ok
        /\ total_rows(r) > batch_size
        /\ pc[r] = "done"

\* The identifiers of an import: the table name and the upload's column names.
Identifiers(r) == {inp[r].table} \cup {inp[r].file.columns[c] : c \in 1 .. Len(inp[r].file.columns)}

\* C6: an import whose table name, or one of whose column names, does not
\* match the identifier pattern fails with an error, and no DDL is issued and
\* no rows are inserted.
C6_InvalidIdentifierRejected ==
    \A r \in ImportReqs :
        (\E v \in Identifiers(r) : ~MatchesIdentifier(v)) =>
            /\ CallsOf(r) = <<>>
            /\ inserted_rows[r] = 0
            /\ pc[r] = "done" => resp[r].status >= 400

\* An upload with zero columns or zero rows.
EmptyUpload(r) == inp[r].file.columns = <<>> \/ SumN(inp[r].file.segs) = 0

\* C7: an import of an empty table (zero rows, or zero columns) is rejected
\* with an error before any interaction with the sink: no client is fetched,
\* no DDL is issued and no insert call is made.
C7_EmptyRejected ==
    \A r \in ImportReqs :
        EmptyUpload(r) =>
            /\ CallsOf(r) = <<>>
            /\ GetsOf(r) = <<>>
            /\ client[r] = 0
            /\ pc[r] \in {"reading", "done"}
            /\ pc[r] = "done" => resp[r].status \in {400, 500}

\* C7's case: an upload that is a header line alone was rejected.
C7_Witness ==
    \E r \in ImportReqs :
        /\ inp[r].file.columns # <<>>
        /\ SumN(inp[r].file.segs) = 0
        /\ filename_ok(inp[r].file.filename)
        /\ pc[r] = "done"
        /\ resp[r].status = 400

IntegerLiterals == {"1", "2", "3"}

FloatLiterals == IntegerLiterals \cup {"2.5"}

BooleanTokens == {"true", "false"}

DateTimeLiterals == {"2024-01-01"}

\* The inference policy of the specification: the first of Integer, Float,
\* Boolean, DateTime whose check every non-blank value passes, else Text;
\* Text too for a column with no non-blank value.
infer(values) ==
    LET nonblank == values \ {""} IN
    IF nonblank = {} THEN "Text"
    ELSE IF nonblank \subseteq IntegerLiterals THEN "Integer"
    ELSE IF nonblank \subseteq FloatLiterals THEN "Float"
    ELSE IF nonblank \subseteq BooleanTokens THEN "Boolean"
    ELSE IF nonblank \subseteq DateTimeLiterals THEN "DateTime"
    ELSE "Text"

\* The storage keyword type_mapping gives each inferred type.
StorageKeyword(t) ==
    CASE t = "Integer" -> "Int64"
      [] t = "Float" -> "Float64"
      [] t = "Boolean" -> "UInt8"
      [] t = "DateTime" -> "DateTime"
      [] t = "Text" -> "String"

\* The values of column c of request r's upload.
ColumnValues(r, c) == {inp[r].file.segs[k].row[c] : k \in 1 .. Len(inp[r].file.segs)}

\* C8: every column of the created table has the type the priority order
\* Integer, Float, Boolean, DateTime, Text infers from its values.
C8_TypeInference ==
    \A a \in 1 .. Len(calls) :
        calls[a].op = "command" =>
            \A c \in 1 .. Len(calls[a].cols) :
                calls[a].cols[c].type = StorageKeyword(infer(ColumnValues(calls[a].req, c)))

\* An import has issued all of its inserts, or has failed.
Finished(r) == pc[r] \in {"return", "done"}

\* C9: once an import has issued its CREATE TABLE on a client, no DDL or
\* insert call of another request is issued on that client until the first
\* has issued all of its inserts or has failed.
C9_Serialized ==
    \A a \in 1 .. Len(calls) : \A b \in (a + 1) .. Len(calls) :
        ( /\ calls[a].op = "command"
          /\ calls[b].op \in {"command", "insert"}
          /\ calls[b].req # calls[a].req
          /\ calls[b].client = calls[a].client ) =>
            /\ Finished(calls[a].req)
            /\ \A c \in (b + 1) .. Len(calls) : calls[c].req # calls[a].req

\* C9's case: two imports that resolve to one cached client are in flight,
\* one between two of its inserts, the other waiting for its upload.
C9_Witness ==
    \E r1 \in ImportReqs : \E r2 \in ImportReqs \ {r1} :
        /\ pc[r1] = "insert" /\ i[r1] > 0
        /\ pc[r2] = "reading"
        /\ cache_key(inp[r1].conn) = cache_key(inp[r2].conn)

\* The key of the claim: (host, port, database, username).
KeyTuple(conn) == <<conn.host, conn.port, conn.database, conn.username>>

\* C10: a client is created only when no earlier call with its key
\* (host, port, database, username) returned one; calls with one key return
\* one client, whatever their password and secure; a failed creation raises
\* 503 and adds nothing to connection_pool, which holds the created clients.
C10_CacheInvariant ==
    /\ \A k \in 1 .. Len(gets) : \A j \in 1 .. (k - 1) :
           (KeyTuple(gets[j].conn) = KeyTuple(gets[k].conn) /\ gets[j].result # 0) =>
               /\ ~gets[k].created
               /\ gets[k].result = gets[j].result
    /\ \A k \in 1 .. Len(gets) :
           /\ gets[k].result = 0 <=> gets[k].raised = 503
           /\ gets[k].raised = 0 => gets[k].result \in {connection_pool[x] : x \in DOMAIN connection_pool}
    /\ Cardinality(DOMAIN connection_pool) = Len(SelectSeq(gets, LAMBDA g : g.created))
    /\ \A x \in DOMAIN connection_pool : \A y \in DOMAIN connection_pool :
           connection_pool[x] = connection_pool[y] => x = y

\* C10's case: a call found the client an earlier call created with another
\* password and secure flag.
C10_Witness ==
    \E k \in 1 .. Len(gets) : \E j \in 1 .. (k - 1) :
        /\ gets[j].created
        /\ gets[k].result = gets[j].result
        /\ gets[k].conn.password # gets[j].conn.password
        /\ gets[k].conn.secure # gets[j].conn.secure

====
